---- MODULE Spec2Model ----
(***************************************************************************)
(* Timer / scheduler core of prism's backend:                              *)
(*   TimerService  (backend/src/core/services/timer.ts)                    *)
(*   Scheduler     (backend/src/core/services/scheduler.ts, BullMQ queue)  *)
(* The broker (queue + worker of BullMQ) is the environment: it stores the *)
(* jobs it was given, delivers a job to the worker once it is due and the  *)
(* worker is free, and answers getJob / remove by job id.                  *)
(* Strings are strings: names and job ids are built by concatenation as    *)
(* the code builds them, so that two ids are equal only if the code makes  *)
(* them equal.                                                             *)
(***************************************************************************)
EXTENDS Integers, Sequences, FiniteSets, TLC

\* ---- bounds ------------------------------------------------------------
MaxTimers == 1
MaxEntries == 2
MaxClock == 2
MaxInflight == 2
MaxListeners == 2
MaxSends == 1
MaxOps == 3

\* ---- inputs ------------------------------------------------------------
Labels == {"x"}
Delays == 0..1
Targets == 0..MaxClock
CronExprs == {"* * * * *"}
Actions ==
    { [type |-> "notify",  name |-> "",       payload |-> "p1"],
      [type |-> "event",   name |-> "ping",   payload |-> "p1"],
      [type |-> "message", name |-> "alerts", payload |-> "p1"] }
ConnectOutcomes == {"ok", "throws", "unreachable"}
\* EventBus subscribers, the event names of event actions, the channels of message
\* actions (any string is accepted for both), and the names subscribed to
BusHandlers == {"h1", "h2"}
EventNames == {"ping", "msg:alerts", "error"}
Channels == {"alerts"}
SubNames == (EventNames \ {"error"}) \cup {"msg:" \o c : c \in Channels}
BusActions ==
    {[type |-> "event", name |-> n, payload |-> [from |-> "event", name |-> n]] :
        n \in EventNames}
    \cup
    {[type |-> "message", name |-> c, payload |-> [from |-> "message", name |-> c]] :
        c \in Channels}
\* NotifyPayload: userId, title and the channel (absent: "")
Payloads ==
    { [userId |-> "a", title |-> "t1", channel |-> ""],
      [userId |-> "a", title |-> "t2", channel |-> "email"],
      [userId |-> "b", title |-> "t1", channel |-> ""] }
ChannelNames == {"email"}
\* the functions registered as channel handlers
ChannelHandlers == {"c1", "c2"}
JobNames == {"x"}
Everys == {1}

VARIABLES
    clock,        \* Date.now(), in ticks
    ready,        \* Scheduler._ready
    brokerUp,     \* the broker answers requests
    entries,      \* TimerService.entries : id -> TimerEntry
    handlers,     \* Scheduler.handlers   : job name -> closure
    jobs,         \* Scheduler.jobs       : job id -> SchedulerJob
    queue,        \* jobs the broker holds and has not yet delivered
    worker,       \* the worker's processor: idle, or awaiting notify.send
    calls,        \* calls suspended on a reply of the broker
    removed,      \* the recorded jobs whose remove(jobId) completed, while their handler stands
    nSend,        \* id -> number of NotificationService.send calls made for the timer
    nEmit,        \* id -> number of EventBus.emit calls made for the timer
    errorsLogged, \* the queue/worker 'error' listeners have logged
    cancelDone,   \* ids whose cancel(id) completed before the timer was due (cron: at any time)
    result,       \* outcome of the call or job this step began or completed
    dispatched,   \* the downstream calls TimerService.dispatch has made
    listeners,    \* EventBus: event name -> listeners, in registration order
    received,     \* EventBus: the invocations the last emit made, in order
    db,           \* payload -> number of notifications persisted for it
    pushed,       \* payload -> number of realtime pushes made for it
    handled,      \* payload -> number of channel handler invocations for it
    nCalls,       \* payload -> number of NotificationService.send calls begun
    channels,     \* NotificationService.channels: channel name -> handler
    io,           \* NotificationService.io is attached
    sends,        \* NotificationService.send calls suspended on an await
    scheduledAt,  \* payload -> the instants schedule() was asked to deliver it at
    trail,        \* the effects the last step of a send performed, in order
    nOps          \* number of NotificationService calls made by modules

busVars == <<listeners, received>>
serviceVars == <<db, pushed, handled, nCalls, channels, io, sends, scheduledAt, trail>>
notifyVars == <<serviceVars, nOps>>
timerVars == <<entries, nSend, nEmit, errorsLogged, cancelDone, dispatched>>

vars == <<clock, ready, brokerUp, entries, handlers, jobs, queue, worker,
          calls, removed, nSend, nEmit, errorsLogged, cancelDone, result, dispatched,
          listeners, received, db, pushed, handled, nCalls, channels, io, sends,
          scheduledAt, trail, nOps>>

\* ---- strings the code builds ---------------------------------------------
\* randomUUID(): the n-th id generated by the process
Uuid(n) == "u" \o ToString(n)
\* `timer:${id}`
TimerName(id) == "timer:" \o id
\* `${name}-${Date.now()}`
DelayedJobId(name, now) == name \o "-" \o ToString(now)
\* the id the broker gives the job of one occurrence of a repeatable job
RepeatJobId(name, at) == "repeat:" \o name \o ":" \o ToString(at)

\* the id the broker gives the job of one occurrence of a job repeated every n ticks
EveryJobId(name, at) == "repeat:" \o name \o ":every:" \o ToString(at)

\* ---- records -------------------------------------------------------------
NoAction == [type |-> "none", name |-> "", payload |-> ""]
Idle == [state |-> "idle", name |-> "", h |-> [kind |-> "none", id |-> "", action |-> NoAction]]
NoCall == [op |-> "none", outcome |-> "none"]

FireAtTime(t) == [kind |-> "at", at |-> t, cron |-> ""]
FireAtCron(expr) == [kind |-> "cron", at |-> 0, cron |-> expr]

TimerEntry(id, label, action, fireAt, now) ==
    [id |-> id, label |-> label, action |-> action, status |-> "pending",
     fireAt |-> fireAt, createdAt |-> now]

IsCron(e) == e.fireAt.kind = "cron"

\* next instant strictly after `now` that the cron expression matches
NextOccurrence(expr, now) == now + 1

\* Map.set
MapSet(m, k, v) == [x \in DOMAIN m \cup {k} |-> IF x = k THEN v ELSE m[x]]
\* Map.delete
MapDelete(m, k) == [x \in DOMAIN m \ {k} |-> m[x]]
Inc(f, k) == [f EXCEPT ![k] = @ + 1]

\* ---- Scheduler (scheduler.ts) ----------------------------------------------
\* an isReady that does not look at _ready
isReadyAlways == TRUE

\* get isReady(): _ready && queue !== null; the queue is null only when
\* `new Queue` threw, and then _ready is false too
isReady == ready

Job(id, name, dueAt, repeat) == [id |-> id, name |-> name, dueAt |-> dueAt, repeat |-> repeat]

\* Queue.add at the broker: a job whose id the queue already holds is not added again
QueueAdd(q, job) == IF \E j \in q : j.id = job.id THEN q ELSE q \cup {job}

\* Queue.getJob at the broker: the jobs with exactly this id
QueueGetJob(q, jobId) == {j \in q : j.id = jobId}

\* handlers.set(name, fn) registers the name anew: what is remembered of the removed
\* jobs of that name ends there
StillRemoved(name) == {r \in removed : r.name # name}

Call(op, stage, name, jobId, type, timer) ==
    [op |-> op, stage |-> stage, name |-> name, jobId |-> jobId, type |-> type,
     timer |-> timer]

\* addDelayed that sends the job but forgets to register the handler
addDelayedNoHandler(name, delay, fn, timer) ==
    LET jobId == DelayedJobId(name, clock) IN
    /\ isReady
    /\ Cardinality(calls) < MaxInflight
    /\ handlers' = handlers
    /\ queue' = IF brokerUp THEN QueueAdd(queue, Job(jobId, name, clock + delay, "")) ELSE queue
    /\ calls' = calls \cup {Call("addDelayed", "add", name, jobId, "delayed", timer)}
    /\ removed' = StillRemoved(name)

\* addDelayed(name, delay, fn) up to its await: the handler is registered and the
\* job is sent to the queue under the id `${name}-${Date.now()}`
addDelayed(name, delay, fn, timer) ==
    LET jobId == DelayedJobId(name, clock) IN
    /\ isReady
    /\ Cardinality(calls) < MaxInflight
    /\ handlers' = MapSet(handlers, name, fn)
    /\ queue' = IF brokerUp THEN QueueAdd(queue, Job(jobId, name, clock + delay, "")) ELSE queue
    /\ calls' = calls \cup {Call("addDelayed", "add", name, jobId, "delayed", timer)}
    /\ removed' = StillRemoved(name)

\* add(name, cron, fn) up to the promise it does not await
add(name, cron, fn) ==
    LET at == NextOccurrence(cron, clock)
        jobId == RepeatJobId(name, at) IN
    /\ isReady
    /\ Cardinality(calls) < MaxInflight
    /\ handlers' = MapSet(handlers, name, fn)
    /\ queue' = IF brokerUp THEN QueueAdd(queue, Job(jobId, name, at, cron)) ELSE queue
    /\ calls' = calls \cup {Call("add", "add", name, jobId, "cron", "")}
    /\ removed' = StillRemoved(name)

\* addRepeating(name, every, fn) up to its await
addRepeating(name, every, fn) ==
    LET at == clock + every
        jobId == EveryJobId(name, at) IN
    /\ isReady
    /\ Cardinality(calls) < MaxInflight
    /\ handlers' = MapSet(handlers, name, fn)
    /\ queue' = IF brokerUp THEN QueueAdd(queue, Job(jobId, name, at, "every")) ELSE queue
    /\ calls' = calls \cup {Call("addRepeating", "add", name, jobId, "repeating", "")}
    /\ removed' = StillRemoved(name)

\* a markStatus that writes the status into every entry of the map
markStatusAll(es, id, status) ==
    IF id \in DOMAIN es THEN [x \in DOMAIN es |-> [es[x] EXCEPT !.status = status]] ELSE es

\* a markStatus that stamps the entry anew
markStatusRestamps(es, id, status) ==
    IF id \in DOMAIN es THEN [es EXCEPT ![id].status = status, ![id].createdAt = clock] ELSE es

\* markStatus(id, status)
markStatus(es, id, status) ==
    IF id \in DOMAIN es THEN [es EXCEPT ![id].status = status] ELSE es

\* ---- construction ----------------------------------------------------------
\* new Scheduler(connection) -> _connect(): _ready is false only if `new Queue` /
\* `new Worker` threw; an unreachable broker does not make them throw
Init ==
    /\ clock = 0
    /\ \E connect \in ConnectOutcomes :
           /\ ready = (connect # "throws")
           /\ brokerUp = (connect = "ok")
    /\ entries = <<>>
    /\ handlers = <<>>
    /\ jobs = <<>>
    /\ queue = {}
    /\ worker = Idle
    /\ calls = {}
    /\ removed = {}
    /\ nSend = <<>>
    /\ nEmit = <<>>
    /\ errorsLogged = FALSE
    /\ cancelDone = {}
    /\ result = NoCall
    /\ dispatched = {}
    /\ listeners = [e \in SubNames |-> <<>>]
    /\ received = <<>>
    /\ db = [p \in Payloads |-> 0]
    /\ pushed = [p \in Payloads |-> 0]
    /\ handled = [p \in Payloads |-> 0]
    /\ nCalls = [p \in Payloads |-> 0]
    /\ channels = <<>>
    /\ io = FALSE
    /\ sends = {}
    /\ scheduledAt = [p \in Payloads |-> {}]
    /\ trail = <<>>
    /\ nOps = 0

\* queue.on('error') / worker.on('error'): log, nothing else
LogError ==
    /\ ready
    /\ ~brokerUp
    /\ ~errorsLogged
    /\ errorsLogged' = TRUE
    /\ result' = NoCall
    /\ UNCHANGED <<dispatched, busVars, notifyVars, clock, ready, brokerUp, entries, handlers, jobs, queue, worker,
                   calls, removed, nSend, nEmit, cancelDone>>

\* time passes
Tick ==
    /\ clock < MaxClock
    /\ clock' = clock + 1
    /\ result' = NoCall
    /\ UNCHANGED <<dispatched, busVars, notifyVars, ready, brokerUp, entries, handlers, jobs, queue, worker,
                   calls, removed, nSend, nEmit, errorsLogged, cancelDone>>

\* ---- TimerService (timer.ts) -------------------------------------------------
\* a randomUUID that returns the same id again
NextIdRepeats == Uuid(1)

\* const id = randomUUID(): the id the next after / cron call generates
NextId == Uuid(Cardinality(DOMAIN entries) + 1)

\* the process has created fewer than n timers
Fewer(n) == Cardinality(DOMAIN entries) < n

\* a dispatch that emits a message on the bare channel name
dispatchNoNamespace(action) ==
    IF action.type = "notify"
    THEN [service |-> "notify", event |-> "", payload |-> action.payload]
    ELSE [service |-> "events", event |-> action.name, payload |-> action.payload]

\* dispatch(action): the downstream call made for the action
\*   notify  -> notify.send(action.payload)
\*   event   -> events.emit(action.event, action.payload)
\*   message -> events.emit(`msg:${action.channel}`, action.payload)
dispatch(action) ==
    IF action.type = "notify"
    THEN [service |-> "notify", event |-> "", payload |-> action.payload]
    ELSE IF action.type = "event"
    THEN [service |-> "events", event |-> action.name, payload |-> action.payload]
    ELSE [service |-> "events", event |-> "msg:" \o action.name, payload |-> action.payload]

\* after(label, delayMs, action), up to `await this.scheduler.addDelayed(...)`
after(label, delayMs, action) ==
    LET id == NextId
        name == TimerName(id) IN
    /\ Fewer(MaxEntries)
    /\ clock + delayMs <= MaxClock
    /\ entries' = MapSet(entries, id,
                         TimerEntry(id, label, action, FireAtTime(clock + delayMs), clock))
    /\ nSend' = MapSet(nSend, id, 0)
    /\ nEmit' = MapSet(nEmit, id, 0)
    /\ IF isReady
       THEN /\ addDelayed(name, delayMs, [kind |-> "after", id |-> id, action |-> action], id)
            /\ result' = [op |-> "after", outcome |-> "suspended"]
       ELSE /\ result' = [op |-> "after", outcome |-> "SchedulerUnavailable"]
            /\ UNCHANGED <<handlers, queue, calls, removed>>
    /\ UNCHANGED <<dispatched, busVars, notifyVars, clock, ready, brokerUp, jobs, worker, errorsLogged, cancelDone>>

\* at that also rejects the present instant (delay <= 0 for delay < 0)
AtRejectsNow(label, dt, action) ==
    LET delay == dt - clock IN
    IF delay <= 0
    THEN /\ result' = [op |-> "at", outcome |-> "InvalidSchedule"]
         /\ UNCHANGED <<dispatched, busVars, notifyVars, clock, ready, brokerUp, entries, handlers, jobs, queue,
                        worker, calls, removed, nSend, nEmit, errorsLogged,
                        cancelDone>>
    ELSE after(label, delay, action)

\* at(label, dt, action): dt is given by its toMillis()
At(label, dt, action) ==
    LET delay == dt - clock IN
    IF delay < 0
    THEN /\ result' = [op |-> "at", outcome |-> "InvalidSchedule"]
         /\ UNCHANGED <<dispatched, busVars, notifyVars, clock, ready, brokerUp, entries, handlers, jobs, queue,
                        worker, calls, removed, nSend, nEmit, errorsLogged,
                        cancelDone>>
    ELSE after(label, delay, action)

\* cron(label, cronExpr, action): returns its id without awaiting anything
Cron(label, cronExpr, action) ==
    LET id == NextId
        name == TimerName(id) IN
    /\ Fewer(MaxEntries)
    /\ entries' = MapSet(entries, id, TimerEntry(id, label, action, FireAtCron(cronExpr), clock))
    /\ nSend' = MapSet(nSend, id, 0)
    /\ nEmit' = MapSet(nEmit, id, 0)
    /\ IF isReady
       THEN add(name, cronExpr, [kind |-> "cron", id |-> id, action |-> action])
       ELSE UNCHANGED <<handlers, queue, calls, removed>>
    /\ result' = [op |-> "cron", outcome |-> "ok"]
    /\ UNCHANGED <<dispatched, busVars, notifyVars, clock, ready, brokerUp, jobs, worker, errorsLogged,
                   cancelDone>>

\* the queue's reply to add: addDelayed records the job and resolves, after()
\* returns the timer id; add's `.then` records the job
AddReply(c) ==
    /\ c \in calls
    /\ c.op \in {"addDelayed", "add", "addRepeating"}
    /\ brokerUp
    /\ calls' = calls \ {c}
    /\ jobs' = MapSet(jobs, c.jobId, [id |-> c.jobId, name |-> c.name, type |-> c.type])
    /\ result' = IF c.timer # "" THEN [op |-> "after", outcome |-> "ok"]
                  ELSE IF c.op \in {"addDelayed", "addRepeating"}
                  THEN [op |-> c.op, outcome |-> c.jobId]
                  ELSE NoCall
    /\ UNCHANGED <<dispatched, busVars, notifyVars, clock, ready, brokerUp, entries, handlers, queue, worker,
                   removed, nSend, nEmit, errorsLogged, cancelDone>>

\* the delay of the one-shot timer has not elapsed yet (a cron timer has no last
\* occurrence)
InTime(id) == IsCron(entries[id]) \/ clock < entries[id].fireAt.at

\* the timer ids after / at / cron have returned to their callers: cron returns at
\* once, after returns when addDelayed has resolved
Returned ==
    {id \in DOMAIN entries :
        \/ IsCron(entries[id])
        \/ ready /\ ~\E c \in calls : c.op = "addDelayed" /\ c.timer = id}

\* cancel of an unknown id that returns quietly instead of throwing
CancelUnknownSilent(timerId) ==
    /\ result' = [op |-> "cancel", outcome |-> "ok"]
    /\ UNCHANGED <<dispatched, busVars, notifyVars, clock, ready, brokerUp, entries, handlers, jobs, queue, worker, calls, removed,
                   nSend, nEmit, errorsLogged, cancelDone>>

\* cancel(timerId) with no entry for timerId: throws, before anything else is done
CancelUnknown(timerId) ==
    /\ result' = [op |-> "cancel", outcome |-> "TimerNotFound"]
    /\ UNCHANGED <<dispatched, busVars, notifyVars, clock, ready, brokerUp, entries, handlers, jobs, queue, worker, calls, removed,
                   nSend, nEmit, errorsLogged, cancelDone>>

\* cancel(timerId), up to the first await of Scheduler.remove(`timer:${timerId}`);
\* when the scheduler is not ready remove returns at once and cancel completes
Cancel(timerId) ==
    IF timerId \notin DOMAIN entries
    THEN CancelUnknown(timerId)
    ELSE IF ~isReady
    THEN /\ entries' = markStatus(entries, timerId, "cancelled")
         /\ cancelDone' = IF InTime(timerId) THEN cancelDone \cup {timerId} ELSE cancelDone
         /\ result' = [op |-> "cancel", outcome |-> "ok"]
         /\ UNCHANGED <<dispatched, busVars, notifyVars, clock, ready, brokerUp, handlers, jobs, queue, worker, calls, removed,
                        nSend, nEmit, errorsLogged>>
    ELSE LET c == Call("remove", "getJob", "", TimerName(timerId), "", timerId) IN
         /\ Cardinality(calls) < MaxInflight
         /\ c \notin calls
         /\ calls' = calls \cup {c}
         /\ removed' = removed
         /\ result' = [op |-> "cancel", outcome |-> "suspended"]
         /\ UNCHANGED <<dispatched, busVars, notifyVars, clock, ready, brokerUp, entries, handlers, jobs, queue, worker,
                        nSend, nEmit, errorsLogged, cancelDone>>

\* a remove that drops the bookkeeping of every job enqueued under the name
JobsDeleteByName(js, jobId) == [x \in {k \in DOMAIN js : js[k].name # jobId} |-> js[x]]

\* jobs.delete(jobId) at the end of Scheduler.remove
JobsDelete(js, jobId) == MapDelete(js, jobId)

\* the queue's replies to Scheduler.remove: getJob's answer, then (if the job was
\* found) job.remove()'s; after the last one remove deletes jobId from `jobs` and
\* cancel marks the entry cancelled
RemoveReply(c) ==
    /\ c \in calls
    /\ c.op = "remove"
    /\ brokerUp
    /\ IF c.stage = "getJob" /\ QueueGetJob(queue, c.jobId) # {}
       THEN /\ calls' = (calls \ {c}) \cup {[c EXCEPT !.stage = "jobRemove"]}
            /\ result' = NoCall
            /\ UNCHANGED <<queue, jobs, entries, cancelDone, removed>>
       ELSE /\ queue' = IF c.stage = "jobRemove"
                        THEN queue \ QueueGetJob(queue, c.jobId) ELSE queue
            /\ calls' = calls \ {c}
            /\ jobs' = JobsDelete(jobs, c.jobId)
            /\ removed' = IF c.jobId \in DOMAIN jobs THEN removed \cup {jobs[c.jobId]}
                          ELSE removed
            /\ entries' = markStatus(entries, c.timer, "cancelled")
            /\ cancelDone' = IF c.timer \in DOMAIN entries /\ InTime(c.timer)
                              THEN cancelDone \cup {c.timer} ELSE cancelDone
            /\ result' = [op |-> IF c.type = "direct" THEN "remove" ELSE "cancel",
                          outcome |-> "ok"]
    /\ UNCHANGED <<dispatched, busVars, notifyVars, clock, ready, brokerUp, handlers, worker, nSend, nEmit, errorsLogged>>

\* ---- the worker ----------------------------------------------------------------
\* the jobs a delivered job leaves behind at the broker: the next occurrence of a
\* repeatable job
NextJobs(j) ==
    IF j.repeat = "" THEN {}
    ELSE LET at == NextOccurrence(j.repeat, clock) IN
         {Job(IF j.repeat = "every" THEN EveryJobId(j.name, at) ELSE RepeatJobId(j.name, at),
              j.name, at, j.repeat)}

\* the worker's processor is given a due job: it looks the handler up by job.name
\* and runs it.  The handler marks the entry fired and dispatches the action:
\*   notify          -> await notify.send(payload)
\*   event / message -> events.emit(...), synchronous
\* and the cron handler then marks the entry pending again.
Deliver(j) ==
    /\ brokerUp
    /\ worker.state = "idle"
    /\ j \in queue
    /\ j.dueAt <= clock
    /\ queue' = (queue \ {j}) \cup NextJobs(j)
    /\ IF j.name \notin DOMAIN handlers
       THEN /\ result' = [op |-> "job", outcome |-> "completed"]
            /\ UNCHANGED <<entries, worker, nSend, nEmit, dispatched>>
       ELSE LET h == handlers[j.name]
                fired == markStatus(entries, h.id, "fired")
                d == dispatch(h.action) IN
            /\ dispatched' = dispatched \cup {d}
            /\ IF d.service = "notify"
               THEN /\ entries' = fired
                    /\ nSend' = Inc(nSend, h.id)
                    /\ worker' = [state |-> "send", name |-> j.name, h |-> h]
                    /\ result' = NoCall
                    /\ UNCHANGED nEmit
               ELSE /\ entries' = IF h.kind = "cron" THEN markStatus(fired, h.id, "pending")
                                  ELSE fired
                    /\ nEmit' = Inc(nEmit, h.id)
                    /\ result' = [op |-> "job", outcome |-> "completed"]
                    /\ UNCHANGED <<worker, nSend>>
    /\ UNCHANGED <<busVars, notifyVars, clock, ready, brokerUp, handlers, jobs, calls, removed,
                   errorsLogged, cancelDone>>

\* a handler that catches the error of notify.send
SendSettlesSwallows(ok) ==
    /\ worker.state = "send"
    /\ worker' = Idle
    /\ entries' = IF worker.h.kind = "cron"
                  THEN markStatus(entries, worker.h.id, "pending") ELSE entries
    /\ result' = [op |-> "job", outcome |-> "completed"]
    /\ UNCHANGED <<dispatched, busVars, notifyVars, clock, ready, brokerUp, handlers, jobs,
                   queue, calls, removed, nSend, nEmit, errorsLogged, cancelDone>>

\* a handler that records the failure of notify.send in the entry
SendSettlesMarksFailed(ok) ==
    /\ worker.state = "send"
    /\ worker' = Idle
    /\ entries' = IF ok
                  THEN IF worker.h.kind = "cron"
                       THEN markStatus(entries, worker.h.id, "pending") ELSE entries
                  ELSE markStatus(entries, worker.h.id, "failed")
    /\ result' = [op |-> "job", outcome |-> IF ok THEN "completed" ELSE "failed"]
    /\ UNCHANGED <<dispatched, busVars, notifyVars, clock, ready, brokerUp, handlers, jobs,
                   queue, calls, removed, nSend, nEmit, errorsLogged, cancelDone>>

\* notify.send settles: on success the handler goes on (the cron handler marks the
\* entry pending) and the job completes; on failure dispatch and the handler throw,
\* the processor rejects and the worker reports the job failed ('failed' listener)
SendSettles(ok) ==
    /\ worker.state = "send"
    /\ worker' = Idle
    /\ IF ok
       THEN entries' = IF worker.h.kind = "cron"
                       THEN markStatus(entries, worker.h.id, "pending") ELSE entries
       ELSE UNCHANGED entries
    /\ result' = [op |-> "job", outcome |-> IF ok THEN "completed" ELSE "failed"]
    /\ UNCHANGED <<dispatched, busVars, notifyVars, clock, ready, brokerUp, handlers, jobs, queue, calls, removed, nSend,
                   nEmit, errorsLogged, cancelDone>>

\* ---- EventBus (event-bus.ts) -------------------------------------------------------
schedVars == <<clock, ready, brokerUp, handlers, jobs, queue, worker, calls, removed>>

\* emitter.listeners(event)
Listeners(event) == IF event \in DOMAIN listeners THEN listeners[event] ELSE <<>>

\* the sequence without its i-th element
RemoveAt(s, i) == [k \in 1..(Len(s) - 1) |-> IF k < i THEN s[k] ELSE s[k + 1]]

\* a listener of the emitter: the handler, and whether it was added by once
Listener(h, once) == [h |-> h, once |-> once]

\* on(event, handler): the handler is appended to the listeners of the event
On(event, h) ==
    /\ Len(Listeners(event)) < MaxListeners
    /\ listeners' = MapSet(listeners, event, Append(Listeners(event), Listener(h, FALSE)))
    /\ result' = [op |-> "on", outcome |-> "ok"]
    /\ UNCHANGED <<received, schedVars, timerVars, notifyVars>>

\* once(event, handler): appended like on; the emitter takes the listener off just
\* before it invokes it
Once(event, h) ==
    /\ Len(Listeners(event)) < MaxListeners
    /\ listeners' = MapSet(listeners, event, Append(Listeners(event), Listener(h, TRUE)))
    /\ result' = [op |-> "once", outcome |-> "ok"]
    /\ UNCHANGED <<received, schedVars, timerVars, notifyVars>>

\* off(event, handler): the most recently added instance of the handler is removed
Off(event, h) ==
    LET ls == Listeners(event)
        at == {i \in 1..Len(ls) : ls[i].h = h} IN
    /\ at # {}
    /\ listeners' = MapSet(listeners, event,
                           RemoveAt(ls, CHOOSE i \in at : \A k \in at : k <= i))
    /\ result' = [op |-> "off", outcome |-> "ok"]
    /\ UNCHANGED <<received, schedVars, timerVars, notifyVars>>

\* the number of listeners emitter.emit invokes: it calls them one after the other
\* with no try/catch, so the first one that throws (the fail-th; 0: none throws)
\* ends the emit
NInvoked(event, fail) == IF fail = 0 THEN Len(Listeners(event)) ELSE fail

\* emitter.emit throws: a listener threw, or the event is 'error' and has no listener
EmitThrows(event, fail) == fail # 0 \/ (event = "error" /\ Listeners(event) = <<>>)

\* the listeners left after an emit that invoked the first n: the once listeners
\* among those were taken off
KeepAfterEmit(ls, n) ==
    LET F[i \in 0..Len(ls)] ==
            IF i = 0 THEN <<>>
            ELSE IF i <= n /\ ls[i].once THEN F[i - 1]
            ELSE Append(F[i - 1], ls[i]) IN
    F[Len(ls)]

\* emit(event, payload): the listeners the event has at the call are invoked with
\* the payload, in the order of their registration
emit(event, payload, fail) ==
    LET ls == Listeners(event)
        n == NInvoked(event, fail) IN
    /\ received' = [i \in 1..n |-> [h |-> ls[i].h, event |-> event, payload |-> payload]]
    /\ listeners' = IF ls = <<>> THEN listeners
                    ELSE MapSet(listeners, event, KeepAfterEmit(ls, n))

\* a timer with an event or message action fires: dispatch emits on the bus, and an
\* error emit throws leaves dispatch and the timer's handler: the job fails
BusDispatch(action, fail) ==
    LET d == dispatch(action) IN
    /\ d.service = "events"
    /\ fail \in 0..Len(Listeners(d.event))
    /\ emit(d.event, d.payload, fail)
    /\ result' = [op |-> "job",
                  outcome |-> IF EmitThrows(d.event, fail) THEN "failed" ELSE "completed"]
    /\ UNCHANGED <<schedVars, timerVars, notifyVars>>

BusNext ==
    \/ \E e \in SubNames, h \in BusHandlers : On(e, h)
    \/ \E e \in SubNames, h \in BusHandlers : Once(e, h)
    \/ \E e \in SubNames, h \in BusHandlers : Off(e, h)
    \/ \E a \in BusActions, fail \in 0..MaxListeners : BusDispatch(a, fail)

BusSpec == Init /\ [][BusNext]_vars

\* ---- Scheduler called directly (scheduler.ts) --------------------------------------
\* one more call made by a module
Op ==
    /\ nOps < MaxOps
    /\ nOps' = nOps + 1

\* a job function of a caller of the Scheduler
Fn == [kind |-> "fn", id |-> "", action |-> NoAction]

\* Scheduler.add(name, cron, fn)
SchedAdd(name, cron) ==
    /\ Op
    /\ IF ~isReady
       THEN /\ result' = [op |-> "add", outcome |-> "skipped"]
            /\ UNCHANGED <<handlers, queue, calls, removed>>
       ELSE /\ add(name, cron, Fn)
            /\ result' = [op |-> "add", outcome |-> "ok"]
    /\ UNCHANGED <<clock, ready, brokerUp, jobs, worker, timerVars, busVars, serviceVars>>

\* an addDelayed that registers the handler before it looks at isReady
SchedAddDelayedRegisters(name, delay) ==
    /\ Op
    /\ clock + delay <= MaxClock
    /\ IF ~isReady
       THEN /\ handlers' = MapSet(handlers, name, Fn)
            /\ result' = [op |-> "addDelayed", outcome |-> "SchedulerUnavailable"]
            /\ UNCHANGED <<queue, calls, removed>>
       ELSE /\ addDelayed(name, delay, Fn, "")
            /\ result' = [op |-> "addDelayed", outcome |-> "suspended"]
    /\ UNCHANGED <<clock, ready, brokerUp, jobs, worker, timerVars, busVars, serviceVars>>

\* Scheduler.addDelayed(name, delay, fn)
SchedAddDelayed(name, delay) ==
    /\ Op
    /\ clock + delay <= MaxClock
    /\ IF ~isReady
       THEN /\ result' = [op |-> "addDelayed", outcome |-> "SchedulerUnavailable"]
            /\ UNCHANGED <<handlers, queue, calls, removed>>
       ELSE /\ addDelayed(name, delay, Fn, "")
            /\ result' = [op |-> "addDelayed", outcome |-> "suspended"]
    /\ UNCHANGED <<clock, ready, brokerUp, jobs, worker, timerVars, busVars, serviceVars>>

\* Scheduler.addRepeating(name, every, fn)
SchedAddRepeating(name, every) ==
    /\ Op
    /\ IF ~isReady
       THEN /\ result' = [op |-> "addRepeating", outcome |-> "SchedulerUnavailable"]
            /\ UNCHANGED <<handlers, queue, calls, removed>>
       ELSE /\ addRepeating(name, every, Fn)
            /\ result' = [op |-> "addRepeating", outcome |-> "suspended"]
    /\ UNCHANGED <<clock, ready, brokerUp, jobs, worker, timerVars, busVars, serviceVars>>

\* Scheduler.remove(jobId) called by a module, up to its first await; when the
\* scheduler is not ready it returns at once
SchedRemove(jobId) ==
    /\ Op
    /\ IF ~isReady
       THEN /\ result' = [op |-> "remove", outcome |-> "ok"]
            /\ UNCHANGED <<calls, removed>>
       ELSE LET c == Call("remove", "getJob", "", jobId, "direct", "") IN
            /\ Cardinality(calls) < MaxInflight
            /\ c \notin calls
            /\ calls' = calls \cup {c}
            /\ removed' = removed
            /\ result' = [op |-> "remove", outcome |-> "suspended"]
    /\ UNCHANGED <<clock, ready, brokerUp, handlers, jobs, queue, worker, timerVars,
                   busVars, serviceVars>>

\* the process is restarted and a new Scheduler constructed: the handler map, the
\* job bookkeeping and the pending calls are gone, the broker keeps its jobs
Restart ==
    /\ Op
    /\ handlers' = <<>>
    /\ jobs' = <<>>
    /\ calls' = {}
    /\ removed' = {}
    /\ worker' = Idle
    /\ result' = NoCall
    /\ UNCHANGED <<clock, ready, brokerUp, queue, timerVars, busVars, serviceVars>>

\* ---- NotificationService (notifications.ts) ---------------------------------------
\* const { channel = 'default' } = payload
ChannelOf(p) == IF p.channel = "" THEN "default" ELSE p.channel

\* `notify:${payload.userId}:${Date.now()}`
NotifyName(p, now) == "notify:" \o p.userId \o ":" \o ToString(now)

\* the job function schedule() registers: async () => { await this.send(payload) }
SendLater(p) ==
    [kind |-> "schedule", id |-> "", action |-> [type |-> "notify", name |-> "", payload |-> p]]

\* send(payload) up to `await this.db.notification.create(...)`; `attached` notes
\* whether a socket was attached when send was called
send(p, caller) ==
    /\ nCalls[p] < MaxSends
    /\ ~\E s \in sends : s.payload = p /\ s.caller = caller
    /\ nCalls' = Inc(nCalls, p)
    /\ sends' = sends \cup {[payload |-> p, stage |-> "persist", caller |-> caller,
                              attached |-> io]}
    /\ trail' = <<>>

\* send settles towards the one that awaits it: the caller of send, the caller of
\* schedule (which then returns 'immediate'), the 'notify' subscriber of the
\* notifications module (which catches and logs a failure), or the worker running
\* the job
Complete(s, outcome) ==
    /\ result' =
          IF s.caller = "api" THEN [op |-> "send", outcome |-> outcome]
          ELSE IF s.caller = "schedule"
          THEN [op |-> "schedule", outcome |-> IF outcome = "ok" THEN "immediate" ELSE outcome]
          ELSE IF s.caller = "event"
          THEN [op |-> "subscriber", outcome |-> IF outcome = "ok" THEN "ok" ELSE "logged"]
          ELSE [op |-> "job", outcome |-> IF outcome = "ok" THEN "completed" ELSE "failed"]
    /\ worker' = IF s.caller = "job" THEN Idle ELSE worker

\* NotificationService.send(payload) called by a module
Send(p) ==
    /\ Op
    /\ send(p, "api")
    /\ result' = [op |-> "send", outcome |-> "suspended"]
    /\ UNCHANGED <<db, pushed, handled, channels, io, scheduledAt, schedVars, timerVars,
                   busVars>>

\* `user:${userId}`: the room of the user's sessions
Room(p) == "user:" \o p.userId

\* the effects of a send, as recorded in `trail`: the row created, the emit to a
\* room, the call of a channel handler
PushTo(room) == "push:" \o room
Invoke(h) == "handler:" \o h

\* the effects of send after a successful persist: the realtime push when a socket
\* is attached, then the call of the channel handler when one is registered
AfterPersist(p) ==
    (IF io THEN <<PushTo(Room(p))>> ELSE <<>>) \o
    (IF ChannelOf(p) \in DOMAIN channels THEN <<Invoke(channels[ChannelOf(p)])>> ELSE <<>>)

\* a send that pushes before it looks at the outcome of the persist step
PersistSettlesPushFirst(s, ok) ==
    LET p == s.payload IN
    /\ s \in sends
    /\ s.stage = "persist"
    /\ pushed' = IF io THEN Inc(pushed, p) ELSE pushed
    /\ IF ~ok
       THEN /\ sends' = sends \ {s}
            /\ trail' = IF io THEN <<PushTo(Room(p))>> ELSE <<>>
            /\ Complete(s, "PersistenceFailure")
            /\ UNCHANGED <<db, handled>>
       ELSE /\ db' = Inc(db, p)
            /\ trail' = <<"persist">> \o AfterPersist(p)
            /\ IF ChannelOf(p) \in DOMAIN channels
               THEN /\ handled' = Inc(handled, p)
                    /\ sends' = (sends \ {s}) \cup {[s EXCEPT !.stage = "handler"]}
                    /\ result' = NoCall
                    /\ UNCHANGED worker
               ELSE /\ sends' = sends \ {s}
                    /\ Complete(s, "ok")
                    /\ UNCHANGED handled
    /\ UNCHANGED <<nCalls, channels, io, scheduledAt, nOps, clock, ready, brokerUp,
                   handlers, jobs, queue, calls, removed, timerVars, busVars>>

\* a send that calls this.io.to(...) without the `?.`: with no socket attached it
\* throws after the persist step
PersistSettlesNeedsSocket(s, ok) ==
    LET p == s.payload IN
    /\ s \in sends
    /\ s.stage = "persist"
    /\ IF ~ok \/ ~io
       THEN /\ sends' = sends \ {s}
            /\ db' = IF ok THEN Inc(db, p) ELSE db
            /\ trail' = IF ok THEN <<"persist">> ELSE <<>>
            /\ Complete(s, IF ok THEN "PushFailure" ELSE "PersistenceFailure")
            /\ UNCHANGED <<pushed, handled>>
       ELSE /\ db' = Inc(db, p)
            /\ pushed' = Inc(pushed, p)
            /\ trail' = <<"persist">> \o AfterPersist(p)
            /\ IF ChannelOf(p) \in DOMAIN channels
               THEN /\ handled' = Inc(handled, p)
                    /\ sends' = (sends \ {s}) \cup {[s EXCEPT !.stage = "handler"]}
                    /\ result' = NoCall
                    /\ UNCHANGED worker
               ELSE /\ sends' = sends \ {s}
                    /\ Complete(s, "ok")
                    /\ UNCHANGED handled
    /\ UNCHANGED <<nCalls, channels, io, scheduledAt, nOps, clock, ready, brokerUp,
                   handlers, jobs, queue, calls, removed, timerVars, busVars>>

\* db.notification.create settles.  On failure send rejects.  On success send
\* pushes to the user's room and calls the channel handler, which it awaits
PersistSettles(s, ok) ==
    LET p == s.payload IN
    /\ s \in sends
    /\ s.stage = "persist"
    /\ IF ~ok
       THEN /\ sends' = sends \ {s}
            /\ trail' = <<>>
            /\ Complete(s, "PersistenceFailure")
            /\ UNCHANGED <<db, pushed, handled>>
       ELSE /\ db' = Inc(db, p)
            /\ pushed' = IF io THEN Inc(pushed, p) ELSE pushed
            /\ trail' = <<"persist">> \o AfterPersist(p)
            /\ IF ChannelOf(p) \in DOMAIN channels
               THEN /\ handled' = Inc(handled, p)
                    /\ sends' = (sends \ {s}) \cup {[s EXCEPT !.stage = "handler"]}
                    /\ result' = NoCall
                    /\ UNCHANGED worker
               ELSE /\ sends' = sends \ {s}
                    /\ Complete(s, "ok")
                    /\ UNCHANGED handled
    /\ UNCHANGED <<nCalls, channels, io, scheduledAt, nOps, clock, ready, brokerUp,
                   handlers, jobs, queue, calls, removed, timerVars, busVars>>

\* the channel handler's promise settles: send resolves, or rejects with the
\* handler's error
HandlerSettles(s, ok) ==
    /\ s \in sends
    /\ s.stage = "handler"
    /\ sends' = sends \ {s}
    /\ trail' = <<>>
    /\ Complete(s, IF ok THEN "ok" ELSE "HandlerFailure")
    /\ UNCHANGED <<db, pushed, handled, nCalls, channels, io, scheduledAt, nOps, clock,
                   ready, brokerUp, handlers, jobs, queue, calls, removed, timerVars, busVars>>

\* schedule(payload, at), up to its first await
Schedule(p, at) ==
    LET delay == at - clock IN
    /\ Op
    /\ IF delay <= 0
       THEN /\ send(p, "schedule")
            /\ result' = [op |-> "schedule", outcome |-> "suspended"]
            /\ UNCHANGED <<handlers, queue, calls, removed, scheduledAt>>
       ELSE IF ~isReady
       THEN /\ result' = [op |-> "schedule", outcome |-> "SchedulerUnavailable"]
            /\ UNCHANGED <<handlers, queue, calls, removed, scheduledAt, nCalls, sends, trail>>
       ELSE /\ addDelayed(NotifyName(p, clock), delay, SendLater(p), "")
            /\ scheduledAt' = [scheduledAt EXCEPT ![p] = @ \cup {at}]
            /\ result' = [op |-> "schedule", outcome |-> "suspended"]
            /\ UNCHANGED <<nCalls, sends, trail>>
    /\ UNCHANGED <<db, pushed, handled, channels, io, clock, ready, brokerUp, jobs,
                   worker, timerVars, busVars>>

\* cancel(jobId): await this.scheduler.remove(jobId), up to remove's first await
NotifyCancel(jobId) ==
    /\ Op
    /\ IF ~isReady
       THEN /\ result' = [op |-> "cancel", outcome |-> "ok"]
            /\ UNCHANGED <<calls, removed>>
       ELSE LET c == Call("remove", "getJob", "", jobId, "", "") IN
            /\ Cardinality(calls) < MaxInflight
            /\ c \notin calls
            /\ calls' = calls \cup {c}
            /\ removed' = removed
            /\ result' = [op |-> "cancel", outcome |-> "suspended"]
    /\ UNCHANGED <<clock, ready, brokerUp, handlers, jobs, queue, worker, timerVars,
                   busVars, serviceVars>>

\* a registerChannel that keeps the handler a name already has
RegisterChannelFirstWins(name, h) ==
    /\ Op
    /\ channels' = IF name \in DOMAIN channels THEN channels ELSE MapSet(channels, name, h)
    /\ result' = [op |-> "registerChannel", outcome |-> "ok"]
    /\ UNCHANGED <<db, pushed, handled, nCalls, io, sends, scheduledAt, trail, schedVars,
                   timerVars, busVars>>

\* registerChannel(name, handler): channels.set(name, handler)
RegisterChannel(name, h) ==
    /\ Op
    /\ channels' = MapSet(channels, name, h)
    /\ result' = [op |-> "registerChannel", outcome |-> "ok"]
    /\ UNCHANGED <<db, pushed, handled, nCalls, io, sends, scheduledAt, trail, schedVars,
                   timerVars, busVars>>

\* attachSocket(io)
AttachSocket ==
    /\ Op
    /\ ~io
    /\ io' = TRUE
    /\ result' = [op |-> "attachSocket", outcome |-> "ok"]
    /\ UNCHANGED <<db, pushed, handled, nCalls, channels, sends, scheduledAt, trail,
                   schedVars, timerVars, busVars>>

\* a processor that drops the record of a job from the bookkeeping once it has run it
ProcessDropsRecord(j) ==
    /\ brokerUp
    /\ worker.state = "idle"
    /\ j \in queue
    /\ j.dueAt <= clock
    /\ queue' = (queue \ {j}) \cup NextJobs(j)
    /\ jobs' = MapDelete(jobs, j.id)
    /\ IF j.name \in DOMAIN handlers /\ handlers[j.name].kind = "schedule"
       THEN /\ send(handlers[j.name].action.payload, "job")
            /\ worker' = [state |-> "send", name |-> j.name, h |-> handlers[j.name]]
            /\ result' = NoCall
       ELSE /\ result' = [op |-> "job", outcome |-> "completed"]
            /\ UNCHANGED <<worker, nCalls, sends, trail>>
    /\ UNCHANGED <<db, pushed, handled, channels, io, scheduledAt, nOps, clock, ready,
                   brokerUp, handlers, calls, removed, timerVars, busVars>>

\* a processor that throws when the job's name has no handler
ProcessNoHandlerFails(j) ==
    /\ brokerUp
    /\ worker.state = "idle"
    /\ j \in queue
    /\ j.dueAt <= clock
    /\ queue' = (queue \ {j}) \cup NextJobs(j)
    /\ IF j.name \in DOMAIN handlers /\ handlers[j.name].kind = "schedule"
       THEN /\ send(handlers[j.name].action.payload, "job")
            /\ worker' = [state |-> "send", name |-> j.name, h |-> handlers[j.name]]
            /\ result' = NoCall
       ELSE /\ result' = [op |-> "job",
                          outcome |-> IF j.name \in DOMAIN handlers THEN "completed"
                                      ELSE "failed"]
            /\ UNCHANGED <<worker, nCalls, sends, trail>>
    /\ UNCHANGED <<db, pushed, handled, channels, io, scheduledAt, nOps, clock, ready,
                   brokerUp, handlers, jobs, calls, removed, timerVars, busVars>>

\* the worker's processor is given a due job of a direct caller or of schedule():
\* no handler, or a caller's job function: the job completes; schedule's job
\* function: it calls send and awaits it
Process(j) ==
    /\ brokerUp
    /\ worker.state = "idle"
    /\ j \in queue
    /\ j.dueAt <= clock
    /\ queue' = (queue \ {j}) \cup NextJobs(j)
    /\ IF j.name \in DOMAIN handlers /\ handlers[j.name].kind = "schedule"
       THEN /\ send(handlers[j.name].action.payload, "job")
            /\ worker' = [state |-> "send", name |-> j.name, h |-> handlers[j.name]]
            /\ result' = NoCall
       ELSE /\ result' = [op |-> "job", outcome |-> "completed"]
            /\ UNCHANGED <<worker, nCalls, sends, trail>>
    /\ UNCHANGED <<db, pushed, handled, channels, io, scheduledAt, nOps, clock, ready,
                   brokerUp, handlers, jobs, calls, removed, timerVars, busVars>>

\* the job ids cancel is called with: those in the bookkeeping, and the sentinel
NotifyIds == DOMAIN jobs \cup {"immediate"}

\* the job ids remove is called with: those in the bookkeeping, and one never issued
RemoveIds == DOMAIN jobs \cup {"none"}

SchedNext ==
    \/ Tick
    \/ \E n \in JobNames, e \in CronExprs : SchedAdd(n, e)
    \/ \E n \in JobNames, d \in Delays : SchedAddDelayed(n, d)
    \/ \E n \in JobNames, e \in Everys : SchedAddRepeating(n, e)
    \/ \E id \in RemoveIds : SchedRemove(id)
    \/ Restart
    \/ \E c \in calls : AddReply(c)
    \/ \E c \in calls : RemoveReply(c)
    \/ \E j \in queue : Process(j)

SchedSpec == Init /\ [][SchedNext]_vars

NotifyNext ==
    \/ Tick
    \/ \E p \in Payloads : Send(p)
    \/ \E s \in sends, ok \in BOOLEAN : PersistSettles(s, ok)
    \/ \E s \in sends, ok \in BOOLEAN : HandlerSettles(s, ok)
    \/ \E p \in Payloads, at \in Targets : Schedule(p, at)
    \/ \E id \in NotifyIds : NotifyCancel(id)
    \/ \E n \in ChannelNames, h \in ChannelHandlers : RegisterChannel(n, h)
    \/ AttachSocket
    \/ \E c \in calls : AddReply(c)
    \/ \E c \in calls : RemoveReply(c)
    \/ \E j \in queue : Process(j)

NotifySpec == Init /\ [][NotifyNext]_vars

\* ---- a timer with a notify action, down to the store ------------------------------
\* { type: 'notify', payload }
NotifyAction(p) == [type |-> "notify", name |-> "", payload |-> p]

\* a processor that leaves the job with the broker, which delivers it again
FireKeepsJob(j) ==
    LET h == handlers[j.name] IN
    /\ brokerUp
    /\ worker.state = "idle"
    /\ j \in queue
    /\ j.dueAt <= clock
    /\ j.name \in DOMAIN handlers
    /\ h.action.type = "notify"
    /\ queue' = queue
    /\ entries' = markStatus(entries, h.id, "fired")
    /\ nSend' = Inc(nSend, h.id)
    /\ dispatched' = dispatched \cup {dispatch(h.action)}
    /\ send(h.action.payload, "job")
    /\ worker' = [state |-> "send", name |-> j.name, h |-> h]
    /\ result' = NoCall
    /\ UNCHANGED <<db, pushed, handled, channels, io, scheduledAt, nOps, clock, ready,
                   brokerUp, handlers, jobs, calls, removed, nEmit, errorsLogged, cancelDone,
                   busVars>>

\* the worker's processor is given the due job of a timer with a notify action: the
\* handler marks the entry fired and dispatch calls notify.send(payload), which the
\* handler awaits
Fire(j) ==
    LET h == handlers[j.name] IN
    /\ brokerUp
    /\ worker.state = "idle"
    /\ j \in queue
    /\ j.dueAt <= clock
    /\ j.name \in DOMAIN handlers
    /\ h.action.type = "notify"
    /\ queue' = (queue \ {j}) \cup NextJobs(j)
    /\ entries' = markStatus(entries, h.id, "fired")
    /\ nSend' = Inc(nSend, h.id)
    /\ dispatched' = dispatched \cup {dispatch(h.action)}
    /\ send(h.action.payload, "job")
    /\ worker' = [state |-> "send", name |-> j.name, h |-> h]
    /\ result' = NoCall
    /\ UNCHANGED <<db, pushed, handled, channels, io, scheduledAt, nOps, clock, ready,
                   brokerUp, handlers, jobs, calls, removed, nEmit, errorsLogged, cancelDone,
                   busVars>>

\* timers with notify actions on a store that works: every create succeeds
FireNext ==
    \/ Tick
    \/ \E l \in Labels, d \in Delays, p \in Payloads :
          Fewer(MaxTimers) /\ after(l, d, NotifyAction(p))
    \/ \E c \in calls : AddReply(c)
    \/ \E j \in queue : Fire(j)
    \/ \E s \in sends : PersistSettles(s, TRUE)

FireSpec == Init /\ [][FireNext]_vars

\* a reachable broker answers, the worker takes the due jobs, the store answers
FireLive ==
    /\ FireSpec
    /\ WF_vars(\E c \in calls : AddReply(c))
    /\ WF_vars(\E j \in queue : Fire(j))
    /\ WF_vars(\E s \in sends : PersistSettles(s, TRUE))

\* ---- the 'notify' event of the notifications module ---------------------------------
\* the subscriber NotificationsModule.register adds:
\*   async (payload) => { try { await notify.send(payload) } catch (err) { log } }
NotifySub == "notifySub"

\* the listeners of 'notify'
NotifyListeners == Listeners("notify")

\* the notifications module is registered
Subscribed == \E i \in 1..Len(NotifyListeners) : NotifyListeners[i].h = NotifySub

\* NotificationsModule.register: events.on('notify', subscriber)
RegisterNotifications ==
    /\ ~Subscribed
    /\ On("notify", NotifySub)

\* another module subscribes to 'notify'
OnNotify(h) == On("notify", h)

\* { type: 'event', event: 'notify', payload }
NotifyEvent(p) == [type |-> "event", name |-> "notify", payload |-> p]

\* a timer with the event action 'notify' fires: dispatch emits the event; the
\* listeners are invoked in order, up to one that throws (the subscriber of the
\* notifications module is an async function and never throws); the subscriber,
\* when it is invoked, begins send(payload) and awaits it on its own
EmitNotify(p, fail) ==
    LET d == dispatch(NotifyEvent(p))
        ls == Listeners(d.event)
        n == NInvoked(d.event, fail) IN
    /\ fail \in 0..Len(ls)
    /\ fail # 0 => ls[fail].h # NotifySub
    /\ emit(d.event, d.payload, fail)
    /\ IF \E i \in 1..n : ls[i].h = NotifySub
       THEN send(d.payload, "event")
       ELSE UNCHANGED <<nCalls, sends, trail>>
    /\ result' = [op |-> "job",
                  outcome |-> IF EmitThrows(d.event, fail) THEN "failed" ELSE "completed"]
    /\ UNCHANGED <<schedVars, timerVars, db, pushed, handled, channels, io, scheduledAt,
                   nOps>>

EventNotifyNext ==
    \/ RegisterNotifications
    \/ \E h \in BusHandlers : OnNotify(h)
    \/ \E n \in ChannelNames, h \in ChannelHandlers : RegisterChannel(n, h)
    \/ \E p \in Payloads, fail \in 0..MaxListeners : EmitNotify(p, fail)
    \/ \E s \in sends, ok \in BOOLEAN : PersistSettles(s, ok)
    \/ \E s \in sends, ok \in BOOLEAN : HandlerSettles(s, ok)

EventNotifySpec == Init /\ [][EventNotifyNext]_vars

\* ---- specification ---------------------------------------------------------------
\* the ids cancel is called with: those of the entries, and one never generated
UnknownId == Uuid(MaxEntries + 1)
CancelIds == DOMAIN entries \cup {UnknownId}

Next ==
    \/ Tick
    \/ LogError
    \/ \E l \in Labels, d \in Delays, a \in Actions : Fewer(MaxTimers) /\ after(l, d, a)
    \/ \E l \in Labels, dt \in Targets, a \in Actions :
          (Fewer(MaxTimers) \/ dt < clock) /\ At(l, dt, a)
    \/ \E l \in Labels, e \in CronExprs, a \in Actions : Fewer(MaxTimers) /\ Cron(l, e, a)
    \/ \E id \in CancelIds : Cancel(id)
    \/ \E c \in calls : AddReply(c)
    \/ \E c \in calls : RemoveReply(c)
    \/ \E j \in queue : Deliver(j)
    \/ \E ok \in BOOLEAN : SendSettles(ok)

Spec == Init /\ [][Next]_vars

\* ---- the entry map with two timers -------------------------------------------------
\* the actions of the timers created here: one that awaits (notify), one that does not
MapActions == {a \in Actions : a.type \in {"notify", "event"}}

\* after, cron and cancel calls and the broker's replies and deliveries, interleaved at
\* their suspension points, for up to MaxEntries timers
MapNext ==
    \/ Tick
    \/ \E l \in Labels, d \in Delays, a \in MapActions : after(l, d, a)
    \/ \E l \in Labels, e \in CronExprs, a \in MapActions : Cron(l, e, a)
    \/ \E id \in CancelIds : Cancel(id)
    \/ \E c \in calls : AddReply(c)
    \/ \E c \in calls : RemoveReply(c)
    \/ \E j \in queue : Deliver(j)
    \/ \E ok \in BOOLEAN : SendSettles(ok)

MapSpec == Init /\ [][MapNext]_vars

\* ---- properties ------------------------------------------------------------------
OneShots == {t \in DOMAIN entries : ~IsCron(entries[t])}
Crons == {t \in DOMAIN entries : IsCron(entries[t])}
Dispatches(t) == nSend[t] + nEmit[t]
\* one-shot timers created with a delay > 0
Delayed == {t \in OneShots : entries[t].fireAt.at > entries[t].createdAt}
\* the broker still holds the job enqueued for timer t
JobHeld(t) == \E j \in queue : j.name = TimerName(t)
\* the worker is in the middle of the handler of timer t
Running(t) == worker.state = "send" /\ worker.h.id = t

\* C1: on a ready scheduler, once cancel(t) of a one-shot timer t that after() has
\* returned completed before the delay elapsed, the action is never dispatched
\* (no send, no emit) and the entry is cancelled.
C1_CancelPreventsDispatch ==
    (ready /\ brokerUp) =>
        \A t \in cancelDone \cap OneShots \cap Returned :
            /\ nSend[t] = 0
            /\ nEmit[t] = 0
            /\ entries[t].status = "cancelled"

C3_CancelledIsTerminal ==
    [][\A t \in DOMAIN entries :
          entries[t].status = "cancelled" => entries'[t].status = "cancelled"]_vars

\* C4: the only status transitions of an entry are pending -> fired,
\* fired -> pending (cron timers only) and pending -> cancelled.
C4_OnlyOrderedTransitions ==
    [][\A t \in DOMAIN entries :
          LET a == entries[t].status
              b == entries'[t].status IN
          \/ a = b
          \/ a = "pending" /\ b = "fired"
          \/ a = "fired" /\ b = "pending" /\ IsCron(entries[t])
          \/ a = "pending" /\ b = "cancelled"]_vars

\* C5: on a ready scheduler every delivery of an occurrence of a cron timer
\* dispatches its action exactly once, and when the handler run ends (whatever the
\* outcome of the dispatched action) the entry is pending.
C5_CronBackToPending ==
    [][\A t \in Crons :
          /\ \A j \in queue :
                (j.name = TimerName(t) /\ Deliver(j)) => Dispatches(t)' = Dispatches(t) + 1
          /\ (Running(t) /\ worker'.state = "idle") => entries'[t].status = "pending"
          /\ (worker.state = "idle" /\ worker'.state = "idle" /\ Dispatches(t)' # Dispatches(t))
                => entries'[t].status = "pending"]_vars

\* C6: on a ready scheduler, after cancel(t) of a cron timer t has completed no
\* occurrence dispatches the action any more (and the count of earlier dispatches
\* stays as it is).
C6_NoDispatchAfterCronCancel ==
    [][(ready /\ brokerUp) =>
          \A t \in cancelDone \cap Crons :
              nSend'[t] = nSend[t] /\ nEmit'[t] = nEmit[t]]_vars

\* C7: at(label, targetTime, action) with targetTime < now fails with
\* InvalidSchedule and creates no entry, job or handler; with targetTime >= now it
\* takes the step after(label, targetTime - now, action) takes: a pending entry due
\* at targetTime and, on a ready scheduler, its handler and its job due at targetTime.
C7_AtPastFailsElseAsAfter ==
    [][\A l \in Labels, dt \in Targets, a \in Actions :
          At(l, dt, a) =>
              IF dt < clock
              THEN /\ result'.outcome = "InvalidSchedule"
                   /\ UNCHANGED <<entries, handlers, jobs, queue, calls>>
              ELSE /\ after(l, dt - clock, a)
                   /\ NextId \notin DOMAIN entries
                   /\ entries'[NextId] = TimerEntry(NextId, l, a, FireAtTime(dt), clock)
                   /\ ready => /\ TimerName(NextId) \in DOMAIN handlers'
                               /\ brokerUp => \E j \in queue' :
                                                 j.name = TimerName(NextId) /\ j.dueAt = dt]_vars

\* at() has just rejected a target time in the past
C7_Witness == result = [op |-> "at", outcome |-> "InvalidSchedule"] /\ clock > 0

\* C8 as stated, on a scheduler that is not degraded: cancel(id) with an id that no
\* after / cron call has returned fails with TimerNotFound, starts no
\* Scheduler.remove and changes no entry and nothing of the scheduler.
C8_UnreturnedIdNotFound ==
    [][\A id \in CancelIds :
          (ready /\ id \notin Returned /\ Cancel(id)) =>
              /\ result'.outcome = "TimerNotFound"
              /\ UNCHANGED <<entries, handlers, jobs, queue, calls>>]_vars

\* C8 amended: cancel(id) with an id the Timer Service holds no entry for fails
\* with TimerNotFound, starts no Scheduler.remove and changes no entry and nothing
\* of the scheduler.
C8_UnknownIdNotFound ==
    [][\A id \in CancelIds :
          (id \notin DOMAIN entries /\ Cancel(id)) =>
              /\ result'.outcome = "TimerNotFound"
              /\ UNCHANGED <<entries, handlers, jobs, queue, calls>>]_vars

\* cancel has just rejected an unknown id while a timer exists
C8_Witness ==
    result = [op |-> "cancel", outcome |-> "TimerNotFound"] /\ DOMAIN entries # {}

\* C9: cancel(t) after the one-shot timer t has fired does not throw, dispatches
\* nothing, leaves the running delivery alone and removes nothing from the
\* scheduler (broker queue, job bookkeeping, handlers); t is never dispatched again.
C9_CancelAfterFireIsNoOp ==
    [][\A t \in OneShots :
          Dispatches(t) > 0 =>
              /\ Dispatches(t)' = Dispatches(t)
              /\ Cancel(t) =>
                    /\ result'.outcome \in {"ok", "suspended"}
                    /\ UNCHANGED <<queue, jobs, handlers, worker, nSend, nEmit>>
              /\ \A c \in calls :
                    (c.timer = t /\ RemoveReply(c)) =>
                        /\ result'.outcome = "ok"
                        /\ UNCHANGED <<queue, jobs, handlers, worker, nSend, nEmit>>]_vars

\* cancel(t) has just been called for a timer t that had fired
C9_Witness ==
    \E t \in OneShots :
        /\ Dispatches(t) = 1
        /\ result = [op |-> "cancel", outcome |-> "suspended"]
        /\ {c \in calls : c.op = "remove"}
              = {Call("remove", "getJob", "", TimerName(t), "", t)}

\* C10: once the attempt to reach the broker has failed (`new Queue` threw, or the
\* connection error was reported to the 'error' listeners) the scheduler is degraded
\* (ready = false), and an after() called from then on is rejected instead of being
\* left waiting on the broker.
C10_FailedConnectDegrades ==
    (~brokerUp /\ (errorsLogged \/ ~ready)) =>
        /\ ~ready
        /\ result # [op |-> "after", outcome |-> "suspended"]

\* C12: on a degraded scheduler (ready = false) after, and at with a target time
\* not in the past, reject with SchedulerUnavailable and enqueue nothing, and no
\* action is ever dispatched.
C12_DegradedAfterRejects ==
    [][~ready =>
          /\ \A l \in Labels, a \in Actions :
                /\ \A d \in Delays :
                      after(l, d, a) =>
                          /\ result' = [op |-> "after", outcome |-> "SchedulerUnavailable"]
                          /\ UNCHANGED <<handlers, jobs, queue, calls>>
                /\ \A dt \in Targets :
                      (dt >= clock /\ At(l, dt, a)) =>
                          /\ result' = [op |-> "after", outcome |-> "SchedulerUnavailable"]
                          /\ UNCHANGED <<handlers, jobs, queue, calls>>
          /\ dispatched' = {}
          /\ \A t \in DOMAIN entries' : nSend'[t] = 0 /\ nEmit'[t] = 0]_vars

\* after() has just been rejected on a degraded scheduler, later than at construction
C12_Witness ==
    /\ ~ready
    /\ clock > 0
    /\ result = [op |-> "after", outcome |-> "SchedulerUnavailable"]

C15_SendFailureFailsJob ==
    [][\A t \in DOMAIN entries :
          (Running(t) /\ SendSettles(FALSE)) =>
              /\ result' = [op |-> "job", outcome |-> "failed"]
              /\ worker' = Idle
              /\ UNCHANGED <<entries, dispatched, nSend, nEmit>>]_vars

\* the job of a one-shot timer has just been reported failed
C15_Witness ==
    /\ result = [op |-> "job", outcome |-> "failed"]
    /\ \E t \in OneShots : nSend[t] = 1 /\ entries[t].status = "fired"

\* C16: no entry ever has status failed; every status is pending, fired or cancelled.
C16_NeverFailedStatus ==
    \A t \in DOMAIN entries : entries[t].status \in {"pending", "fired", "cancelled"}

\* the job of a cron timer has just been reported failed and the entry is fired
C16_Witness ==
    /\ result = [op |-> "job", outcome |-> "failed"]
    /\ \E t \in Crons : nSend[t] > 0 /\ entries[t].status = "fired"

\* C14: message channels and plain event names never collide on the bus: the
\* payload of a message action is received only under a "msg:" + channel name that
\* is no event action's name, and the payload of an event action is received only
\* under a name that is no "msg:" + channel.
C14_NoBusCollision ==
    \A i \in 1..Len(received) :
        LET r == received[i] IN
        /\ r.payload.from = "message" =>
              /\ r.event = "msg:" \o r.payload.name
              /\ r.event \notin EventNames
        /\ r.payload.from = "event" =>
              /\ r.event = r.payload.name
              /\ r.event \notin {"msg:" \o c : c \in Channels}

\* C11: in degraded state (ready = false) add returns without throwing, addDelayed
\* and addRepeating fail with SchedulerUnavailable, and none of them changes the
\* handler registry, the job list or the queue.
C11_DegradedSchedulerCalls ==
    [][~ready =>
          \A n \in JobNames :
              /\ \A e \in CronExprs :
                    SchedAdd(n, e) =>
                        /\ result' = [op |-> "add", outcome |-> "skipped"]
                        /\ UNCHANGED <<handlers, jobs, queue, calls>>
              /\ \A d \in Delays :
                    SchedAddDelayed(n, d) =>
                        /\ result' = [op |-> "addDelayed", outcome |-> "SchedulerUnavailable"]
                        /\ UNCHANGED <<handlers, jobs, queue, calls>>
              /\ \A e \in Everys :
                    SchedAddRepeating(n, e) =>
                        /\ result' = [op |-> "addRepeating", outcome |-> "SchedulerUnavailable"]
                        /\ UNCHANGED <<handlers, jobs, queue, calls>>]_vars

\* the third call on a degraded scheduler, an addRepeating, has just been rejected
C11_Witness ==
    /\ ~ready
    /\ nOps = 3
    /\ result = [op |-> "addRepeating", outcome |-> "SchedulerUnavailable"]
    /\ handlers = <<>> /\ jobs = <<>>

\* C17: send persists, then pushes, then calls the channel handler; when the persist
\* step fails send fails to its caller and neither pushes nor calls the handler.
C17_PersistFirstOrFail ==
    [][/\ \A s \in sends :
             s.stage = "persist" =>
                 /\ PersistSettles(s, FALSE) =>
                       /\ UNCHANGED <<db, pushed, handled>>
                       /\ trail' = <<>>
                       /\ s \notin sends'
                       /\ result'.outcome \in {"PersistenceFailure", "failed"}
                 /\ PersistSettles(s, TRUE) =>
                       /\ db'[s.payload] = db[s.payload] + 1
                       /\ \E push \in {<<>>, <<PushTo(Room(s.payload))>>} :
                             \E call \in {<<>>} \cup {<<Invoke(h)>> : h \in ChannelHandlers} :
                                 trail' = <<"persist">> \o push \o call
       /\ \A p \in Payloads :
             /\ pushed'[p] <= db'[p] /\ handled'[p] <= db'[p]
             /\ (pushed'[p] # pushed[p] \/ handled'[p] # handled[p]) => db'[p] = db[p] + 1]_vars

\* a send has just failed in its persist step with a socket attached and a channel
\* handler registered for the payload
C17_Witness ==
    /\ result = [op |-> "send", outcome |-> "PersistenceFailure"]
    /\ io
    /\ \E p \in Payloads : nCalls[p] = 1 /\ ChannelOf(p) \in DOMAIN channels /\ db[p] = 0

\* C18: a failure of the channel handler (or of the push) is not surfaced: when
\* the persist step succeeded, send completes successfully.
C18_DeliveryFailureAbsorbed ==
    [][\A s \in sends :
          \A ok \in BOOLEAN :
              (s.stage = "handler" /\ HandlerSettles(s, ok)) =>
                  result'.outcome \in {"ok", "immediate", "completed"}]_vars

\* C19: schedule(payload, at) with at <= now begins exactly one send, enqueues no
\* job and returns "immediate" when that send has succeeded (also on a degraded
\* scheduler); with at > now it begins no send, the send of the payload is begun by
\* the worker not before an instant the payload was scheduled for, and schedule
\* returns the job id the scheduler recorded.
C19_ScheduleNowOrLater ==
    [][/\ \A p \in Payloads, at \in Targets :
             Schedule(p, at) =>
                 IF at <= clock
                 THEN /\ nCalls'[p] = nCalls[p] + 1
                      /\ sends' = sends \cup {[payload |-> p, stage |-> "persist",
                                                caller |-> "schedule", attached |-> io]}
                      /\ UNCHANGED <<handlers, jobs, queue, calls>>
                 ELSE UNCHANGED <<nCalls, sends, db, pushed, handled>>
       /\ \A s \in sends :
             (/\ s.caller = "schedule"
              /\ \/ s.stage = "persist" /\ ChannelOf(s.payload) \notin DOMAIN channels
                           /\ PersistSettles(s, TRUE)
                 \/ s.stage = "handler" /\ HandlerSettles(s, TRUE)) =>
                 /\ result' = [op |-> "schedule", outcome |-> "immediate"]
                 /\ nCalls' = nCalls
       /\ \A c \in calls :
             (c.op = "addDelayed" /\ AddReply(c)) =>
                 /\ result'.outcome = c.jobId
                 /\ c.jobId \in DOMAIN jobs'
       /\ \A j \in queue :
             Process(j) =>
                 \A p \in Payloads :
                     nCalls'[p] # nCalls[p] => \E at \in scheduledAt[p] : at <= clock]_vars

\* C20: cancel(jobId) persists, pushes and handles nothing and changes no persisted
\* notification; when it completes while the job is not yet due the broker no
\* longer holds the job and no send of a payload scheduled only for later instants
\* has been begun by the worker, and only a due job the broker holds makes the
\* worker begin a send: the scheduled payload is not sent.
C20_CancelBeforeDue ==
    [][/\ \A id \in NotifyIds :
             NotifyCancel(id) => UNCHANGED <<db, pushed, handled, nCalls, sends, queue>>
       /\ \A c \in calls :
             (c.op = "remove" /\ RemoveReply(c)) =>
                 /\ UNCHANGED <<db, pushed, handled, nCalls, sends>>
                 /\ result' = [op |-> "cancel", outcome |-> "ok"] =>
                       /\ \A j \in queue :
                             (j.id = c.jobId /\ clock < j.dueAt) => j \notin queue'
                       /\ \A p \in Payloads :
                             (/\ \E now \in 0..MaxClock :
                                   c.jobId = DelayedJobId(NotifyName(p, now), now)
                              /\ scheduledAt[p] # {}
                              /\ \A at \in scheduledAt[p] : clock < at) =>
                                 \A s \in sends' : s.payload = p => s.caller # "job"
       /\ \A s \in sends' \ sends :
             (s.caller = "job" /\ s.stage = "persist") =>
                 \E j \in queue \ queue' :
                     /\ j.dueAt <= clock
                     /\ handlers[j.name] = SendLater(s.payload)]_vars

\* the calls of channel handlers among the effects of a step of send
HandlerCalls(tr) == SelectSeq(tr, LAMBDA e : e \in {Invoke(h) : h \in ChannelHandlers})

\* C21: registerChannel(name, h) makes h the handler of the name and leaves the other
\* names alone, nothing else changes a registration, and a send whose persist step
\* has succeeded calls the handler then registered under the payload's channel, once,
\* and no other; with none registered it calls none and completes without failure.
C21_LastRegistrationWins ==
    [][/\ \A n \in ChannelNames, h \in ChannelHandlers :
             RegisterChannel(n, h) =>
                 /\ DOMAIN channels' = DOMAIN channels \cup {n}
                 /\ channels'[n] = h
                 /\ \A m \in DOMAIN channels \ {n} : channels'[m] = channels[m]
       /\ channels' # channels =>
             \E n \in ChannelNames, h \in ChannelHandlers : RegisterChannel(n, h)
       /\ \A s \in sends :
             PersistSettles(s, TRUE) =>
                 LET ch == ChannelOf(s.payload) IN
                 IF ch \in DOMAIN channels
                 THEN /\ HandlerCalls(trail') = <<Invoke(channels[ch])>>
                      /\ handled' = Inc(handled, s.payload)
                 ELSE /\ HandlerCalls(trail') = <<>>
                      /\ handled' = handled
                      /\ result'.outcome \in {"ok", "immediate", "completed"}
       /\ \A s \in sends, ok \in BOOLEAN :
             (PersistSettles(s, FALSE) \/ HandlerSettles(s, ok)) =>
                 /\ HandlerCalls(trail') = <<>>
                 /\ handled' = handled]_vars

\* after three calls, one of them a send on channel email, the handler that send
\* has just called is c2, the one registered under email in place of c1
C21_Witness ==
    /\ nOps = 3
    /\ "email" \in DOMAIN channels /\ channels["email"] = "c2"
    /\ trail = <<"persist", Invoke("c2")>>
    /\ \E p \in Payloads : ChannelOf(p) = "email" /\ handled[p] = 1

\* the emits to rooms among the effects of a step of send
PushCalls(tr) ==
    SelectSeq(tr, LAMBDA e : e \notin {"persist"} \cup {Invoke(h) : h \in ChannelHandlers})

\* C22: a send whose persist step succeeds while no socket is attached persists the
\* notification, calls the channel handler if one is registered, pushes nothing and
\* does not fail for the lack of a socket; one whose persist step succeeds with a
\* socket attached pushes once, to the room of the payload's userId; no other step
\* pushes.
C22_PushIffAttached ==
    [][/\ \A s \in sends :
             PersistSettles(s, TRUE) =>
                 LET p == s.payload IN
                 /\ db' = Inc(db, p)
                 /\ Len(HandlerCalls(trail')) = IF ChannelOf(p) \in DOMAIN channels THEN 1 ELSE 0
                 /\ IF io
                    THEN /\ PushCalls(trail') = <<PushTo("user:" \o p.userId)>>
                         /\ pushed' = Inc(pushed, p)
                    ELSE /\ PushCalls(trail') = <<>>
                         /\ pushed' = pushed
                         /\ IF ChannelOf(p) \in DOMAIN channels
                            THEN [s EXCEPT !.stage = "handler"] \in sends'
                            ELSE result'.outcome \in {"ok", "immediate", "completed"}
       /\ pushed' # pushed => \E s \in sends : PersistSettles(s, TRUE)]_vars

\* a send on a channel with a handler has completed with no socket attached: the
\* notification is persisted, the handler was called, nothing was pushed
C22_Witness ==
    /\ ~io
    /\ result = [op |-> "send", outcome |-> "ok"]
    /\ \E p \in Payloads :
          /\ ChannelOf(p) \in DOMAIN channels
          /\ db[p] = 1 /\ handled[p] = 1 /\ pushed[p] = 0

\* C22 as stated: a send that was called before any socket was attached performs
\* no push.
C22_CalledBeforeAttachNoPush ==
    [][\A s \in sends :
          (~s.attached /\ PersistSettles(s, TRUE)) => pushed' = pushed]_vars

\* the invocation of listener l by an emit of the dispatched call d
Invocation(l, d) == [h |-> l.h, event |-> d.event, payload |-> d.payload]

\* C23: an emit invokes the listeners the event has at the call, each once, with the
\* payload, in registration order, and no one else; with no listener it invokes
\* nothing; and it does not fail.
C23_EmitDeliversAllInOrder ==
    [][\A a \in BusActions, fail \in 0..MaxListeners :
          BusDispatch(a, fail) =>
              LET d == dispatch(a)
                  ls == Listeners(d.event) IN
              /\ received' = [i \in 1..Len(ls) |-> Invocation(ls[i], d)]
              /\ result'.outcome = "completed"]_vars

\* C24: the emission that follows a once registration invokes the listener, and the
\* listener is off the event afterwards, whether it returned or threw; so it is
\* invoked for no other emission.
C24_OnceFirstEmissionOnly ==
    [][\A a \in BusActions, fail \in 0..MaxListeners :
          BusDispatch(a, fail) =>
              LET d == dispatch(a)
                  ls == Listeners(d.event) IN
              /\ \A i \in 1..Len(ls) :
                    ls[i].once => /\ i <= Len(received')
                                  /\ received'[i].h = ls[i].h
              /\ \A i \in 1..Len(Listeners(d.event)') : ~Listeners(d.event)'[i].once]_vars

\* C25: a registration never changes what an earlier emission delivered, and when a
\* timer with an event action fires, every once listener the event has at that
\* moment is invoked by the fire, once, with the action's payload.
C25_RegisteredBeforeFire ==
    [][/\ \A e \in SubNames, h \in BusHandlers :
             (On(e, h) \/ Once(e, h)) => received' = received
       /\ \A a \in BusActions, fail \in 0..MaxListeners :
             (a.type = "event" /\ BusDispatch(a, fail)) =>
                 LET d == dispatch(a)
                     ls == Listeners(d.event) IN
                 \A i \in 1..Len(ls) :
                     ls[i].once =>
                         /\ Len(received') = Len(ls)
                         /\ received'[i] = Invocation(ls[i], d)]_vars

\* C26: when a subscriber throws during an emit, the remaining listeners are still
\* invoked and the timer job that emitted the event does not fail.
C26_SubscriberErrorAbsorbed ==
    [][\A a \in BusActions, fail \in 1..MaxListeners :
          BusDispatch(a, fail) =>
              /\ Len(received') = Len(Listeners(dispatch(a).event))
              /\ result' = [op |-> "job", outcome |-> "completed"]]_vars

\* C27: remove(jobId) does not fail; in degraded state, and for an id whose job the
\* queue does not hold (unknown, or already executed), it leaves the job bookkeeping,
\* the handler registry and the queue unchanged.
C27_RemoveNoOp ==
    [][/\ \A id \in RemoveIds :
             (~ready /\ SchedRemove(id)) =>
                 /\ result' = [op |-> "remove", outcome |-> "ok"]
                 /\ UNCHANGED <<jobs, handlers, queue, calls>>
       /\ \A c \in calls :
             (c.op = "remove" /\ RemoveReply(c)) =>
                 /\ result' \in {NoCall, [op |-> "remove", outcome |-> "ok"]}
                 /\ QueueGetJob(queue, c.jobId) = {} => UNCHANGED <<jobs, handlers, queue>>]_vars

\* C28: when the worker is given a job whose name has no handler, the job completes:
\* no handler runs (nothing is sent, the worker stays idle), no failure is reported
\* and the job is not put back in the queue.
C28_NoHandlerCompletes ==
    [][\A j \in queue :
          (j.name \notin DOMAIN handlers /\ Process(j)) =>
              /\ result' = [op |-> "job", outcome |-> "completed"]
              /\ j \notin queue'
              /\ UNCHANGED <<worker, handlers, jobs, nCalls, sends, db, pushed, handled>>]_vars

\* after a restart that lost the handler map, a job the broker had kept has been
\* delivered and has completed
C28_Witness ==
    /\ handlers = <<>>
    /\ queue = {}
    /\ result = [op |-> "job", outcome |-> "completed"]

\* C29: the id a successful addDelayed / addRepeating returns is one no record of
\* the bookkeeping has yet, so that every successful call adds one record to list().
C29_JobIdsUnique ==
    [][\A c \in calls :
          (c.op \in {"addDelayed", "addRepeating"} /\ AddReply(c)) =>
              /\ c.jobId \notin DOMAIN jobs
              /\ Cardinality(DOMAIN jobs') = Cardinality(DOMAIN jobs) + 1]_vars

\* the one-shot timers created with delay 0 and a notify action for payload p
ZeroDelayNotify(p) ==
    {t \in OneShots : /\ entries[t].fireAt.at = entries[t].createdAt
                      /\ entries[t].action = NotifyAction(p)}

\* C30: on a ready scheduler with a reachable broker and a working store, the job of
\* after(label, 0, notify p) is due from the instant it was created; it is held by
\* the broker with nothing sent, or it has been delivered and one send was made for
\* the timer; the notifications persisted for p are exactly those of the sends that
\* have passed their persist step; and a notification for p is eventually persisted.
C30_ZeroDelayPersistsOnce ==
    /\ [](\A p \in Payloads :
            (ready /\ brokerUp) =>
                /\ \A t \in ZeroDelayNotify(p) :
                      /\ \A j \in queue : j.name = TimerName(t) => j.dueAt <= clock
                      /\ \/ JobHeld(t) /\ nSend[t] = 0
                         \/ ~JobHeld(t) /\ nSend[t] = 1
                /\ (\A t \in OneShots : entries[t].action = NotifyAction(p) => t \in ZeroDelayNotify(p))
                      => db[p] + Cardinality({s \in sends : s.payload = p /\ s.stage = "persist"})
                           = Cardinality({t \in ZeroDelayNotify(p) : nSend[t] = 1}))
    /\ \A p \in Payloads :
          (ready /\ brokerUp /\ ZeroDelayNotify(p) # {}) ~> (db[p] >= 1)

\* a timer created with delay 0 has fired within the instant of its creation and
\* one notification is persisted for its payload
C30_Witness ==
    \E p \in Payloads :
        \E t \in ZeroDelayNotify(p) :
            /\ ready /\ brokerUp
            /\ clock = entries[t].createdAt
            /\ entries[t].status = "fired"
            /\ nSend[t] = 1
            /\ db[p] = 1
            /\ sends = {}

\* C31: list() returns every entry the process ever created through after or cron,
\* whatever its status: each after / cron call adds one entry under an id no other
\* entry has, no step (fire, cancel, reply) ever takes an entry out or changes its
\* id, and the ids of the entries are pairwise distinct.
C31_ListKeepsEveryEntry ==
    [][/\ \A t \in DOMAIN entries : t \in DOMAIN entries' /\ entries'[t].id = entries[t].id
       /\ \A l \in Labels, a \in MapActions :
             /\ \A d \in Delays :
                   after(l, d, a) =>
                       Cardinality(DOMAIN entries') = Cardinality(DOMAIN entries) + 1
             /\ \A e \in CronExprs :
                   Cron(l, e, a) =>
                       Cardinality(DOMAIN entries') = Cardinality(DOMAIN entries) + 1
       /\ \A a, b \in DOMAIN entries' :
             /\ entries'[a].id = a
             /\ entries'[a].id = entries'[b].id => a = b]_vars

\* two timers were created; one has fired and the other was cancelled, both are listed
C31_Witness ==
    /\ Cardinality(DOMAIN entries) = 2
    /\ \E a, b \in DOMAIN entries :
          entries[a].status = "fired" /\ entries[b].status = "cancelled"

\* C32: every status change of an entry (fire, cron re-arm, cancel) leaves the
\* entry's id, label, action, fireAt and createdAt as they were and leaves every
\* other entry as it was; the action dispatched when a timer fires is the action
\* its entry was created with.
C32_StatusChangeKeepsTheRest ==
    [][/\ \A t \in DOMAIN entries :
             /\ [entries'[t] EXCEPT !.status = entries[t].status] = entries[t]
             /\ entries'[t].status # entries[t].status =>
                   \A u \in DOMAIN entries \ {t} : entries'[u] = entries[u]
       /\ \A j \in queue :
             (Deliver(j) /\ j.name \in DOMAIN handlers) =>
                 LET h == handlers[j.name] IN
                 /\ j.name = TimerName(h.id)
                 /\ h.action = entries[h.id].action
                 /\ dispatch(entries[h.id].action) \in dispatched']_vars

\* of two timers with different actions, created at different instants, one has
\* fired while the other is still pending
C32_Witness ==
    \E a, b \in DOMAIN entries :
        /\ entries[a].action # entries[b].action
        /\ entries[a].createdAt < clock
        /\ entries[a].status = "fired"
        /\ entries[b].status = "pending"
        /\ Dispatches(a) = 1

\* C33: on a ready scheduler, when cancel(t) of a timer t that after() has returned
\* completes, the job after() enqueued for t under the name timer:<t> is no longer
\* in the broker's queue and no longer in Scheduler.list().
C33_CancelRemovesJob ==
    [][(ready /\ brokerUp) =>
          \A c \in calls :
              (/\ c.timer \in OneShots \cap Returned
               /\ RemoveReply(c)
               /\ result' = [op |-> "cancel", outcome |-> "ok"]) =>
                  /\ ~\E j \in queue' : j.name = TimerName(c.timer)
                  /\ ~\E k \in DOMAIN jobs' : jobs'[k].name = TimerName(c.timer)]_vars

\* the step completes cancel(t): remove has returned (at once on a degraded scheduler)
\* and markStatus(t, 'cancelled') has run
CancelCompletes(t) ==
    \/ ~isReady /\ Cancel(t)
    \/ \E c \in calls :
          c.timer = t /\ RemoveReply(c) /\ result' = [op |-> "cancel", outcome |-> "ok"]

\* the step begins the handler of timer t: a job named timer:<t> is delivered
Fires(t) == \E j \in queue : j.name = TimerName(t) /\ j.name \in DOMAIN handlers /\ Deliver(j)

\* the step resumes the cron handler of timer t after its dispatch: it re-arms
ReArms(t) == Running(t) /\ IsCron(entries[t]) /\ SendSettles(TRUE)

\* C34: under every interleaving of after, cron and cancel calls and job fires at
\* their suspension points no update of the entry map is lost: a step that writes
\* the status of an entry (fire, re-arm of a cron timer, completion of a cancel)
\* leaves the entry with the status it wrote, the status of an entry changes in no
\* other step, and the step changes no other entry.
C34_NoLostUpdate ==
    [][\A t \in DOMAIN entries :
          /\ CancelCompletes(t) => entries'[t].status = "cancelled"
          /\ Fires(t) =>
                entries'[t].status =
                    IF IsCron(entries[t]) /\ entries[t].action.type # "notify"
                    THEN "pending" ELSE "fired"
          /\ ReArms(t) => entries'[t].status = "pending"
          /\ entries'[t].status # entries[t].status =>
                CancelCompletes(t) \/ Fires(t) \/ ReArms(t)
          /\ (CancelCompletes(t) \/ Fires(t) \/ ReArms(t)) =>
                \A u \in DOMAIN entries \ {t} : entries'[u] = entries[u]]_vars

\* the cancel of one timer has completed between the fire of another timer and the
\* end of that timer's handler
C34_Witness ==
    \E a, b \in DOMAIN entries :
        /\ a # b
        /\ Running(b)
        /\ entries[b].status = "fired"
        /\ entries[a].status = "cancelled"
        /\ result = [op |-> "cancel", outcome |-> "ok"]

\* the step completes a Scheduler.remove(jobId) on a ready scheduler
RemoveCompletes(c) == RemoveReply(c) /\ result'.outcome = "ok"

\* C35: Scheduler.list() is local bookkeeping: a job enters it when the add call
\* that enqueued it completes (addDelayed, addRepeating, and addCron's enqueue),
\* leaves it when a remove of its id completes, and nothing else changes it: not
\* the call of an add or a remove, not the passing of time, and not the broker
\* firing the job.  A new instance starts with an empty list.
C35_ListIsLocalBookkeeping ==
    [][/\ \A c \in calls :
             /\ AddReply(c) =>
                   /\ DOMAIN jobs' = DOMAIN jobs \cup {c.jobId}
                   /\ jobs'[c.jobId] = [id |-> c.jobId, name |-> c.name, type |-> c.type]
                   /\ \A k \in DOMAIN jobs \ {c.jobId} : jobs'[k] = jobs[k]
             /\ RemoveCompletes(c) =>
                   /\ DOMAIN jobs' = DOMAIN jobs \ {c.jobId}
                   /\ \A k \in DOMAIN jobs' : jobs'[k] = jobs[k]
       /\ Restart => jobs' = <<>>
       /\ (~Restart /\ \A c \in calls : ~AddReply(c) /\ ~RemoveCompletes(c)) => jobs' = jobs
       /\ \A j \in queue : Process(j) => jobs' = jobs]_vars

\* a delayed job has been fired by the broker and is still listed, while another
\* job has been removed from the list
C35_Witness ==
    /\ result = [op |-> "job", outcome |-> "completed"]
    /\ removed # {}
    /\ \E k \in DOMAIN jobs :
          jobs[k].type = "delayed" /\ ~\E j \in queue : j.id = k

\* C36: an after() that fails because the scheduler is unavailable leaves the Timer
\* Service as it was: no entry is created for the failed call.
C36_FailedAfterLeavesNoEntry ==
    [][\A l \in Labels, d \in Delays, a \in Actions :
          (after(l, d, a) /\ result' = [op |-> "after", outcome |-> "SchedulerUnavailable"]) =>
              entries' = entries]_vars

\* C37: every pending entry has a handler registered in the scheduler under the
\* name timer:<id>, whether it was created by after or by cron and whether the
\* scheduler was ready or degraded then.
C37_PendingHasHandler ==
    \A t \in DOMAIN entries :
        entries[t].status = "pending" => TimerName(t) \in DOMAIN handlers

\* the job j of the broker is the recorded job r or a later occurrence of it: the
\* same job id, or the same repeatable job (name and kind of repetition)
OccurrenceOf(j, r) ==
    \/ j.id = r.id
    \/ r.type = "cron" /\ j.repeat \notin {"", "every"} /\ j.name = r.name
    \/ r.type = "repeating" /\ j.repeat = "every" /\ j.name = r.name

\* no other add call has used the name of the recorded job r
OnlyRegistration(r) ==
    /\ ~\E k \in DOMAIN jobs : jobs[k].name = r.name
    /\ ~\E c \in calls : c.name = r.name
    /\ \A q \in removed : q.name = r.name => q = r

\* C38: on a ready scheduler, once remove(jobId) of a recorded job has completed,
\* the handler registered for that job is not invoked any more: the worker runs it
\* for no later delivery of the job, be it a delivery that was under way during
\* the remove or a further occurrence of the job.
C38_RemovedNeverRuns ==
    [][(ready /\ brokerUp) =>
          \A j \in queue, r \in removed :
              (OccurrenceOf(j, r) /\ OnlyRegistration(r) /\ Process(j)) =>
                  j.name \notin DOMAIN handlers]_vars

\* C39: the handler run for a delivered job is the one passed to the add call that
\* enqueued the job: while the broker holds a job, no later add call under the same
\* name changes the handler registered for it, and the payload the worker sends for
\* a job of schedule() is one that was scheduled for the instant the job is due at.
C39_HandlerOfPendingJobKept ==
    [][/\ \A j \in queue :
             j.name \in DOMAIN handlers =>
                 /\ j.name \in DOMAIN handlers'
                 /\ handlers'[j.name] = handlers[j.name]
       /\ \A s \in sends' \ sends :
             (s.caller = "job" /\ s.stage = "persist") =>
                 \E j \in queue \ queue' : j.dueAt \in scheduledAt[s.payload]]_vars

\* C40: once the notifications module is registered, every emission of the bus
\* event "notify" (here by a timer's event action) begins exactly one
\* NotificationService.send of the emitted payload, and a failure of that send
\* stays inside the subscriber: the emit does not throw for it and no step of the
\* send reports a failed job or stops the worker.
C40_NotifyEventSendsOnce ==
    [][/\ \A p \in Payloads, fail \in 0..MaxListeners :
             (Subscribed /\ EmitNotify(p, fail)) =>
                 /\ nCalls'[p] = nCalls[p] + 1
                 /\ \E s \in sends' \ sends : s.payload = p /\ s.caller = "event"
                 /\ fail = 0 => result' = [op |-> "job", outcome |-> "completed"]
       /\ \A s \in sends, ok \in BOOLEAN :
             (s.caller = "event" /\ (PersistSettles(s, ok) \/ HandlerSettles(s, ok))) =>
                 /\ result'.op # "job"
                 /\ worker' = worker]_vars
====
